---- MODULE Spec2Model ----
(***************************************************************************)
(* EagleBank API: the persistent store (users, accounts, transactions) and *)
(* the request handlers that read and write it.  Every handler is split at *)
(* its awaited storage calls, so concurrent requests interleave exactly    *)
(* where the code awaits the store.  Amounts and balances are integers     *)
(* (minor currency units).                                                 *)
(***************************************************************************)
EXTENDS Integers, Sequences, FiniteSets, TLC

(* ------------------------------ bounds -------------------------------- *)

\* Transaction rows the store may hold before new ledger requests stop.
MaxTx == 3

\* The most accounts opened after the first.
MaxOpen == 2

\* The most users registered after the first two.
MaxRegister == 2

\* Requests that may be in flight at once.
Procs == {"r1", "r2"}

\* Registered users (bearer-token identities).
UserIds == {"u1", "u2"}

\* The account every run starts with, and an id no account ever has.
AcctA == "a1"
AcctMissing == "a9"

(* --------------------------- program values --------------------------- *)

\* src/unnamed/part_006:337  z.enum([...]) of transactionCreateSchema
SchemaTypes == {"DEBIT", "CREDIT", "TRANSFER", "WITHDRAWAL", "DEPOSIT"}

VARIABLES
    users,          \* the users table: id -> row
    accounts,       \* account id -> account row (the accounts table)
    transactions,   \* the transactions table, rows in commit order
    pc,             \* per request: the await it is suspended at
    req,            \* per request: the parsed HTTP request
    snap,           \* per request: the account row its first read returned
    resp            \* per request: the HTTP response it sent

vars == <<users, accounts, transactions, pc, req, snap, resp>>

(* ------------------------------ helpers ------------------------------- *)

None == <<>>
Some(x) == <<x>>

\* middleware/errorHandler.ts createError + errorHandler: status and message
\* go to the caller as they are; no data.
ErrorResponse(status, msg) ==
    [status |-> status, msg |-> msg, accts |-> <<>>, txs |-> <<>>]

NoResp == [status |-> 0, msg |-> "", accts |-> <<>>, txs |-> <<>>]

\* An absent PATCH body / query: every field missing.
NoBody ==
    [currency |-> None, type |-> None, status |-> None,
     balance |-> None, accountNumber |-> None, userId |-> None,
     email |-> None, firstName |-> None, password |-> None,
     page |-> None, limit |-> None]

\* A string that is not a JSON Web Token.
NoToken == [userId |-> "", key |-> "", expired |-> FALSE]

\* A request without an Authorization header.
NoHeader == [scheme |-> "", token |-> NoToken]

NoReq ==
    [op |-> "none", user |-> "", acct |-> "", type |-> "", amount |-> 0,
     bodyAcct |-> FALSE, body |-> NoBody, userId |-> "", txId |-> 0,
     auth |-> NoHeader, error |-> <<>>, env |-> ""]

\* Mutant: the query filters on the id alone.
FindFirstAccount_AnyOwner(accountId, userId) ==
    IF accountId \in DOMAIN accounts THEN Some(accounts[accountId]) ELSE None

\* prisma.account.findFirst({ where: { id, userId } })
FindFirstAccount(accountId, userId) ==
    IF accountId \in DOMAIN accounts /\ accounts[accountId].userId = userId
    THEN Some(accounts[accountId])
    ELSE None

\* prisma.account.findUnique({ where: { id } })
FindUniqueAccount(accountId) ==
    IF accountId \in DOMAIN accounts THEN Some(accounts[accountId]) ELSE None

(* ----------------------- POST .../transactions ------------------------ *)

\* validateRequest(transactionCreateSchema): the issues zod reports, in
\* schema order.  Amounts here are finite numbers.
SchemaIssues(r) ==
    (IF r.amount = 0 THEN <<"Amount cannot be zero">> ELSE <<>>)
    \o (IF r.type \notin SchemaTypes THEN <<"Invalid transaction type">> ELSE <<>>)
    \o (IF ~r.bodyAcct THEN <<"Required">> ELSE <<>>)

\* Mutant: the funds check refuses a withdrawal of the whole balance.
TransactionChecks_RejectFullBalance(r, account) ==
    IF account = None
    THEN Some(ErrorResponse(404, "Account not found"))
    ELSE IF account[1].status # "ACTIVE"
    THEN Some(ErrorResponse(400, "Cannot perform transactions on inactive account"))
    ELSE IF r.amount <= 0
    THEN Some(ErrorResponse(400, "Transaction amount must be positive"))
    ELSE IF r.type = "WITHDRAWAL" /\ account[1].balance <= r.amount
    THEN Some(ErrorResponse(400, "Insufficient funds"))
    ELSE None

\* Mutant: no funds check.
TransactionChecks_NoFundsCheck(r, account) ==
    IF account = None
    THEN Some(ErrorResponse(404, "Account not found"))
    ELSE IF account[1].status # "ACTIVE"
    THEN Some(ErrorResponse(400, "Cannot perform transactions on inactive account"))
    ELSE IF r.amount <= 0
    THEN Some(ErrorResponse(400, "Transaction amount must be positive"))
    ELSE None

\* Mutant: the status check comes after the funds check.
TransactionChecks_StatusLast(r, account) ==
    IF account = None
    THEN Some(ErrorResponse(404, "Account not found"))
    ELSE IF r.amount <= 0
    THEN Some(ErrorResponse(400, "Transaction amount must be positive"))
    ELSE IF r.type = "WITHDRAWAL" /\ account[1].balance < r.amount
    THEN Some(ErrorResponse(400, "Insufficient funds"))
    ELSE IF account[1].status # "ACTIVE"
    THEN Some(ErrorResponse(400, "Cannot perform transactions on inactive account"))
    ELSE None

\* transactionService.ts:27-49: the checks on the account row that was read,
\* in the order the code makes them.  <<>> when every check passes.
TransactionChecks(r, account) ==
    IF account = None
    THEN Some(ErrorResponse(404, "Account not found"))
    ELSE IF account[1].status # "ACTIVE"
    THEN Some(ErrorResponse(400, "Cannot perform transactions on inactive account"))
    ELSE IF r.amount <= 0
    THEN Some(ErrorResponse(400, "Transaction amount must be positive"))
    ELSE IF r.type = "WITHDRAWAL" /\ account[1].balance < r.amount
    THEN Some(ErrorResponse(400, "Insufficient funds"))
    ELSE None

\* Mutant: the deposit branch subtracts.
NewBalance_AlwaysSubtract(type, balance, amount) == balance - amount

\* transactionService.ts:52-55
NewBalance(type, balance, amount) ==
    IF type = "DEPOSIT" THEN balance + amount ELSE balance - amount

\* transactionService.ts:60-71: the row tx.transaction.create inserts; the
\* snapshots come from the account row read before the storage transaction.
TransactionRow(id, r, account) ==
    [id            |-> id,
     accountId     |-> r.acct,
     type          |-> r.type,
     amount        |-> r.amount,
     balanceBefore |-> account.balance,
     balanceAfter  |-> NewBalance(r.type, account.balance, r.amount)]

\* Mutant: the balance update is left out of the storage transaction.
BalanceWrite_Skipped(accts, r, account) == accts

\* transactionService.ts:74-77: tx.account.update({ data: { balance } })
BalanceWrite(accts, r, account) ==
    [accts EXCEPT ![r.acct].balance = NewBalance(r.type, account.balance, r.amount)]

\* No request of p is being handled: it has sent none yet, or the last one
\* has been answered.
Ready(p) == pc[p] \in {"idle", "done"}

\* Ledger requests past their checks and not yet committed.
InFlightTx == {q \in Procs : pc[q] \in {"txCreate", "txUpdate"}}

\* The request reaches the router, passes validateRequest, and the service
\* awaits account.findFirst; the checks on the row run as soon as it resolves.
\* (unnamed/part_007:20-24, unnamed/part_003:4-36, transactionService.ts:18-56)
PostTransaction(p, U, A, T, M, B) ==
    /\ Ready(p)
    /\ Len(transactions) + Cardinality(InFlightTx) < MaxTx
    /\ \E u \in U, a \in A, t \in T, m \in M, b \in B :
         LET r == [NoReq EXCEPT !.op = "createTransaction", !.user = u,
                                !.acct = a, !.type = t, !.amount = m,
                                !.bodyAcct = b]
             issues  == SchemaIssues(r)
             account == FindFirstAccount(a, u)
             failed  == TransactionChecks(r, account)
         IN  /\ req' = [req EXCEPT ![p] = r]
             /\ IF issues # <<>>
                THEN /\ pc' = [pc EXCEPT ![p] = "done"]
                     /\ snap' = [snap EXCEPT ![p] = None]
                     /\ resp' = [resp EXCEPT ![p] =
                                   ErrorResponse(400, "Validation failed: " \o issues[1])]
                ELSE IF failed # None
                        THEN /\ pc' = [pc EXCEPT ![p] = "done"]
                             /\ snap' = [snap EXCEPT ![p] = None]
                             /\ resp' = [resp EXCEPT ![p] = failed[1]]
                        ELSE /\ pc' = [pc EXCEPT ![p] = "txCreate"]
                             /\ snap' = [snap EXCEPT ![p] = account]
                             /\ resp' = [resp EXCEPT ![p] = NoResp]
    /\ UNCHANGED <<users, accounts, transactions>>

\* prisma.$transaction, first statement: tx.transaction.create.  The row is
\* written inside the storage transaction and is not visible outside it; the
\* insert throws when the account row is gone (foreign key), which rolls the
\* storage transaction back. (transactionService.ts:58-71, 83-88)
TxCreate(p) ==
    /\ pc[p] = "txCreate"
    /\ IF req[p].acct \in DOMAIN accounts
       THEN /\ pc' = [pc EXCEPT ![p] = "txUpdate"]
            /\ UNCHANGED <<snap, resp>>
       ELSE /\ pc' = [pc EXCEPT ![p] = "done"]
            /\ snap' = [snap EXCEPT ![p] = None]
            /\ resp' = [resp EXCEPT ![p] =
                          ErrorResponse(500, "Failed to create transaction")]
    /\ UNCHANGED <<users, accounts, transactions, req>>

\* prisma.$transaction, second statement and commit: tx.account.update, then
\* both writes become visible together; if the update throws (no such row)
\* the insert is rolled back with it. (transactionService.ts:73-88)
TxUpdate(p) ==
    /\ pc[p] = "txUpdate"
    /\ IF req[p].acct \in DOMAIN accounts
       THEN LET row == TransactionRow(Len(transactions) + 1, req[p], snap[p][1])
            IN  /\ transactions' = Append(transactions, row)
                /\ accounts' = BalanceWrite(accounts, req[p], snap[p][1])
                /\ resp' = [resp EXCEPT ![p] =
                              [status |-> 201,
                               msg |-> "Transaction created successfully",
                               accts |-> <<>>, txs |-> <<row>>]]
       ELSE /\ resp' = [resp EXCEPT ![p] =
                          ErrorResponse(500, "Failed to create transaction")]
            /\ UNCHANGED <<accounts, transactions>>
    /\ pc' = [pc EXCEPT ![p] = "done"]
    /\ snap' = [snap EXCEPT ![p] = None]
    /\ UNCHANGED <<users, req>>

(* ------------------------ accounts: read, PATCH ----------------------- *)

\* accountService.ts:68-103 getAccountById: <<>> when the row is absent, the
\* Forbidden error when it belongs to someone else, else the row.
ForbiddenResponse ==
    ErrorResponse(403, "Forbidden: You can only access your own accounts")

\* Mutant: the ownership comparison is missing.
OwnershipDenied_Never(account, userId) == FALSE

\* accountService.ts:89
OwnershipDenied(account, userId) == account.userId # userId

\* GET /v1/accounts/:accountId (accountController.ts:28-66)
GetAccount(p, U, A) ==
    /\ Ready(p)
    /\ \E u \in U, a \in A :
         LET account == FindUniqueAccount(a)
         IN  /\ req' = [req EXCEPT ![p] =
                          [NoReq EXCEPT !.op = "getAccountById", !.user = u, !.acct = a]]
             /\ resp' = [resp EXCEPT ![p] =
                  IF account = None THEN ErrorResponse(404, "Account not found")
                  ELSE IF OwnershipDenied(account[1], u) THEN ForbiddenResponse
                  ELSE [status |-> 200, msg |-> "Account retrieved successfully",
                        accts |-> account, txs |-> <<>>]]
    /\ pc' = [pc EXCEPT ![p] = "done"]
    /\ UNCHANGED <<users, accounts, transactions, snap>>

\* Mutant: an account of another user is reported as absent.
GuardAccount_ForeignNotFound(account, userId) ==
    IF account = None \/ account[1].userId # userId
    THEN Some(ErrorResponse(404, "Account not found"))
    ELSE None

\* The existence-and-ownership read that opens updateAccount and
\* deleteAccount (accountService.ts:141-144, 169-172): the error response,
\* or <<>> when the caller may go on.
GuardAccount(account, userId) ==
    IF account = None THEN Some(ErrorResponse(404, "Account not found"))
    ELSE IF OwnershipDenied(account[1], userId) THEN Some(ForbiddenResponse)
    ELSE None

\* PATCH /v1/accounts/:accountId up to the await of account.update: the route
\* has no validateRequest, the controller hands req.body to the service.
\* (routes/accountRoutes.ts:27, accountController.ts:89-121, accountService.ts:139-144)
PatchAccount(p, U, A, Bodies) ==
    /\ Ready(p)
    /\ \E u \in U, a \in A, b \in Bodies :
         LET account == FindUniqueAccount(a)
             denied  == GuardAccount(account, u)
         IN  /\ req' = [req EXCEPT ![p] =
                          [NoReq EXCEPT !.op = "updateAccount", !.user = u,
                                        !.acct = a, !.body = b]]
             /\ IF denied # None
                THEN /\ pc' = [pc EXCEPT ![p] = "done"]
                     /\ resp' = [resp EXCEPT ![p] = denied[1]]
                ELSE /\ pc' = [pc EXCEPT ![p] = "update"]
                     /\ resp' = [resp EXCEPT ![p] = NoResp]
    /\ UNCHANGED <<users, accounts, transactions, snap>>

\* prisma.account.update({ where: { id }, data: updateData }): every field
\* the body carries replaces the row's field. (accountService.ts:147-150)
ApplyUpdate(account, body) ==
    [f \in DOMAIN account |->
        IF body[f] = None THEN account[f] ELSE body[f][1]]

\* The store refuses the write: no such row, an owner that is no user, or an
\* account number another row holds (accountService.ts:22 reads it as unique).
UpdateRejected(accountId, body) ==
    \/ accountId \notin DOMAIN accounts
    \/ body.userId # None /\ body.userId[1] \notin DOMAIN users
    \/ /\ body.accountNumber # None
       /\ \E o \in DOMAIN accounts \ {accountId} :
            accounts[o].accountNumber = body.accountNumber[1]

\* accountService.ts:146-158
AccountUpdate(p) ==
    /\ pc[p] = "update"
    /\ IF UpdateRejected(req[p].acct, req[p].body)
       THEN /\ resp' = [resp EXCEPT ![p] =
                          ErrorResponse(500, "Failed to update account")]
            /\ accounts' = accounts
       ELSE LET row == ApplyUpdate(accounts[req[p].acct], req[p].body)
            IN  /\ accounts' = [accounts EXCEPT ![req[p].acct] = row]
                /\ resp' = [resp EXCEPT ![p] =
                              [status |-> 200, msg |-> "Account updated successfully",
                               accts |-> <<row>>, txs |-> <<>>]]
    /\ pc' = [pc EXCEPT ![p] = "done"]
    /\ UNCHANGED <<users, transactions, req, snap>>

(* --------------------------- accounts: DELETE ------------------------- *)

\* Mutant: the count is taken over no rows.
CountTransactions_Zero(accountId) == 0

\* prisma.transaction.count({ where: { accountId } })
CountTransactions(accountId) ==
    Cardinality({i \in 1..Len(transactions) : transactions[i].accountId = accountId})

\* DELETE /v1/accounts/:accountId up to the await of transaction.count
\* (accountController.ts:123-149, accountService.ts:167-172)
DeleteAccount(p, U, A) ==
    /\ Ready(p)
    /\ \E u \in U, a \in A :
         LET account == FindUniqueAccount(a)
             denied  == GuardAccount(account, u)
         IN  /\ req' = [req EXCEPT ![p] =
                          [NoReq EXCEPT !.op = "deleteAccount", !.user = u, !.acct = a]]
             /\ IF denied # None
                THEN /\ pc' = [pc EXCEPT ![p] = "done"]
                     /\ resp' = [resp EXCEPT ![p] = denied[1]]
                ELSE /\ pc' = [pc EXCEPT ![p] = "count"]
                     /\ resp' = [resp EXCEPT ![p] = NoResp]
    /\ UNCHANGED <<users, accounts, transactions, snap>>

\* accountService.ts:174-184
DeleteCount(p) ==
    /\ pc[p] = "count"
    /\ IF CountTransactions(req[p].acct) > 0
       THEN /\ pc' = [pc EXCEPT ![p] = "done"]
            /\ resp' = [resp EXCEPT ![p] =
                 ErrorResponse(409, "Cannot delete account with existing transactions")]
       ELSE /\ pc' = [pc EXCEPT ![p] = "delete"]
            /\ resp' = resp
    /\ UNCHANGED <<users, accounts, transactions, req, snap>>

\* Mutant: the store lets a referenced account row go.
DeleteRefused_RowOnly(accountId) == accountId \notin DOMAIN accounts

\* What the store does with a delete of an account row that transaction rows
\* still reference: it refuses ("deletion blocked while any Transaction
\* references the account").
DeleteRefused(accountId) ==
    \/ accountId \notin DOMAIN accounts
    \/ CountTransactions(accountId) > 0

\* Mutant: the delete takes the transactions of the account with it.
AccountDelete_Cascade(p) ==
    /\ pc[p] = "delete"
    /\ IF req[p].acct \notin DOMAIN accounts
       THEN /\ resp' = [resp EXCEPT ![p] =
                          ErrorResponse(500, "Failed to delete account")]
            /\ UNCHANGED <<accounts, transactions>>
       ELSE /\ accounts' = [a \in DOMAIN accounts \ {req[p].acct} |-> accounts[a]]
            /\ transactions' = SelectSeq(transactions,
                                  LAMBDA row : row.accountId # req[p].acct)
            /\ resp' = [resp EXCEPT ![p] =
                          [status |-> 200, msg |-> "Account deleted successfully",
                           accts |-> <<>>, txs |-> <<>>]]
    /\ pc' = [pc EXCEPT ![p] = "done"]
    /\ UNCHANGED <<users, req, snap>>

\* accountService.ts:186-195
AccountDelete(p) ==
    /\ pc[p] = "delete"
    /\ IF DeleteRefused(req[p].acct)
       THEN /\ resp' = [resp EXCEPT ![p] =
                          ErrorResponse(500, "Failed to delete account")]
            /\ accounts' = accounts
       ELSE /\ accounts' = [a \in DOMAIN accounts \ {req[p].acct} |-> accounts[a]]
            /\ resp' = [resp EXCEPT ![p] =
                          [status |-> 200, msg |-> "Account deleted successfully",
                           accts |-> <<>>, txs |-> <<>>]]
    /\ pc' = [pc EXCEPT ![p] = "done"]
    /\ UNCHANGED <<users, transactions, req, snap>>

(* -------------------- GET .../transactions (list) --------------------- *)

\* GET /v1/accounts/:accountId/transactions up to the awaited findMany/count
\* (unnamed/part_003:70-110, transactionService.ts:139-150)
GetTransactions(p, U, A) ==
    /\ Ready(p)
    /\ \E u \in U, a \in A :
         LET account == FindFirstAccount(a, u)
         IN  /\ req' = [req EXCEPT ![p] =
                          [NoReq EXCEPT !.op = "getTransactionsByAccountId",
                                        !.user = u, !.acct = a]]
             /\ IF account = None
                THEN /\ pc' = [pc EXCEPT ![p] = "done"]
                     /\ resp' = [resp EXCEPT ![p] =
                                   ErrorResponse(404, "Account not found")]
                ELSE /\ pc' = [pc EXCEPT ![p] = "list"]
                     /\ resp' = [resp EXCEPT ![p] = NoResp]
    /\ UNCHANGED <<users, accounts, transactions, snap>>

\* The rows of one account, newest first (orderBy createdAt desc).
RECURSIVE NewestFirst(_, _)
NewestFirst(rows, accountId) ==
    IF rows = <<>> THEN <<>>
    ELSE LET last == rows[Len(rows)]
             rest == NewestFirst(SubSeq(rows, 1, Len(rows) - 1), accountId)
         IN  IF last.accountId = accountId THEN <<last>> \o rest ELSE rest

\* transactionService.ts:152-193 with page and limit left at their defaults.
ListTransactions(p) ==
    /\ pc[p] = "list"
    /\ pc' = [pc EXCEPT ![p] = "done"]
    /\ resp' = [resp EXCEPT ![p] =
                  [status |-> 200, msg |-> "Transactions retrieved successfully",
                   accts |-> <<>>, txs |-> NewestFirst(transactions, req[p].acct)]]
    /\ UNCHANGED <<users, accounts, transactions, req, snap>>

(* ------------- GET .../transactions/:transactionId, history ----------- *)

\* Mutant: the query filters on the transaction id alone.
FindFirstTransaction_AnyAccount(transactionId, accountId, userId) ==
    LET hits == {i \in 1..Len(transactions) : transactions[i].id = transactionId}
    IN  IF hits = {} THEN None ELSE Some(transactions[CHOOSE i \in hits : TRUE])

\* prisma.transaction.findFirst({ where: { id, account: { id: accountId,
\* userId } } }) (transactionService.ts:97-104)
FindFirstTransaction(transactionId, accountId, userId) ==
    LET hits == {i \in 1..Len(transactions) :
                    /\ transactions[i].id = transactionId
                    /\ transactions[i].accountId = accountId
                    /\ accountId \in DOMAIN accounts
                    /\ accounts[accountId].userId = userId}
    IN  IF hits = {} THEN None ELSE Some(transactions[CHOOSE i \in hits : TRUE])

\* GET /v1/accounts/:accountId/transactions/:transactionId
\* (unnamed/part_007:30-33, unnamed/part_003:38-69, transactionService.ts:91-128)
GetTransaction(p, U, A, Ids) ==
    /\ Ready(p)
    /\ \E u \in U, a \in A, t \in Ids :
         LET transaction == FindFirstTransaction(t, a, u)
         IN  /\ req' = [req EXCEPT ![p] =
                          [NoReq EXCEPT !.op = "getTransactionById", !.user = u,
                                        !.acct = a, !.txId = t]]
             /\ resp' = [resp EXCEPT ![p] =
                  IF transaction = None
                  THEN ErrorResponse(404, "Transaction not found")
                  ELSE [status |-> 200, msg |-> "Transaction retrieved successfully",
                        accts |-> <<>>, txs |-> transaction]]
    /\ pc' = [pc EXCEPT ![p] = "done"]
    /\ UNCHANGED <<users, accounts, transactions, snap>>

\* The where clause getTransactionHistory builds: the account of the row
\* belongs to the user, and the row passes each filter that is given ("" is
\* a filter that is not given). (transactionService.ts:219-231)
HistoryWhere(row, userId, accountId, type) ==
    /\ row.accountId \in DOMAIN accounts
    /\ accounts[row.accountId].userId = userId
    /\ accountId # "" => row.accountId = accountId
    /\ type # "" => row.type = type

\* findMany({ where, orderBy: { createdAt: 'desc' } }) over that clause.
RECURSIVE HistoryRows(_, _, _, _)
HistoryRows(rows, userId, accountId, type) ==
    IF rows = <<>> THEN <<>>
    ELSE LET last == rows[Len(rows)]
             rest == HistoryRows(SubSeq(rows, 1, Len(rows) - 1), userId, accountId, type)
         IN  IF HistoryWhere(last, userId, accountId, type)
             THEN <<last>> \o rest ELSE rest

\* GET /v1/transactions with page and limit left at their defaults and no
\* dates. (unnamed/part_007:36, unnamed/part_003:116-155,
\* transactionService.ts:202-278)
GetHistory(p, U, A, T) ==
    /\ Ready(p)
    /\ \E u \in U, a \in A, t \in T :
         /\ req' = [req EXCEPT ![p] =
                      [NoReq EXCEPT !.op = "getTransactionHistory", !.user = u,
                                    !.acct = a, !.type = t]]
         /\ resp' = [resp EXCEPT ![p] =
                       [status |-> 200,
                        msg |-> "Transaction history retrieved successfully",
                        accts |-> <<>>,
                        txs |-> HistoryRows(transactions, u, a, t)]]
    /\ pc' = [pc EXCEPT ![p] = "done"]
    /\ UNCHANGED <<users, accounts, transactions, snap>>

(* --------------------------- accounts: POST --------------------------- *)

\* Ids the store hands out to accounts opened after the first.
NewAccountIds == {"a2", "a3", "a4"}

\* createAccount requests in hand that may still insert a row.
InFlightOpen == {q \in Procs : pc[q] \in {"findUser", "insert"}}

\* src/unnamed/part_006:319-330 accountCreateSchema
Currencies == {"GBP", "USD", "EUR"}
AccountTypes == {"CHECKING", "SAVINGS", "BUSINESS"}

\* validateRequest(accountCreateSchema): the issues zod reports, in schema
\* order.
AccountCreateIssues(body) ==
    (IF body.accountNumber = None THEN <<"Required">> ELSE <<>>)
    \o (IF body.currency = None \/ body.currency \notin {Some(c) : c \in Currencies}
        THEN <<"Invalid currency. Must be GBP, USD, or EUR">> ELSE <<>>)
    \o (IF body.type = None \/ body.type \notin {Some(t) : t \in AccountTypes}
        THEN <<"Invalid account type">> ELSE <<>>)

\* req.body = schema.parse(req.body): a z.object keeps the keys of the schema
\* and drops every other key. (part_006:216-219)
AccountCreateParse(body) ==
    [NoBody EXCEPT !.accountNumber = body.accountNumber,
                   !.currency = body.currency, !.type = body.type]

\* prisma.account.findUnique({ where: { accountNumber } }) finds a row.
NumberHeld(number) ==
    \E a \in DOMAIN accounts : accounts[a].accountNumber = number

\* Mutant: the spread of accountData comes last, so its keys win.
CreateData_ClientWins(accountData, userId) ==
    [accountData EXCEPT
        !.userId  = IF @ = None THEN Some(userId) ELSE @,
        !.balance = IF @ = None THEN Some(0) ELSE @,
        !.status  = IF @ = None THEN Some("ACTIVE") ELSE @]

\* accountService.ts:41-46: { ...accountData, userId, balance: 0,
\* status: 'ACTIVE' }; the keys written after the spread replace its keys.
CreateData(accountData, userId) ==
    [accountData EXCEPT !.userId = Some(userId), !.balance = Some(0),
                        !.status = Some("ACTIVE")]

\* The account row prisma.account.create stores for that data.
CreatedAccount(data) ==
    [accountNumber |-> data.accountNumber[1], balance |-> data.balance[1],
     currency |-> data.currency[1], type |-> data.type[1],
     status |-> data.status[1], userId |-> data.userId[1]]

\* AccountService.createAccount up to the await of user.findUnique
\* (accountService.ts:20-28)
CallCreateAccount(p, u, accountData) ==
    /\ req' = [req EXCEPT ![p] =
                 [NoReq EXCEPT !.op = "createAccount", !.user = u,
                               !.body = accountData]]
    /\ IF NumberHeld(accountData.accountNumber[1])
       THEN /\ pc' = [pc EXCEPT ![p] = "done"]
            /\ resp' = [resp EXCEPT ![p] =
                          ErrorResponse(409, "Account number already exists")]
       ELSE /\ pc' = [pc EXCEPT ![p] = "findUser"]
            /\ resp' = [resp EXCEPT ![p] = NoResp]
    /\ UNCHANGED <<users, accounts, transactions, snap>>

\* A caller inside the program (another module, the service's tests) calling
\* AccountService.createAccount(accountData, userId) with data of its own.
CreateAccount(p, U, Bodies) ==
    /\ Ready(p)
    /\ Cardinality(DOMAIN accounts \cap NewAccountIds)
          + Cardinality(InFlightOpen) < MaxOpen
    /\ \E u \in U, b \in Bodies : CallCreateAccount(p, u, b)

\* POST /v1/accounts: validateRequest(accountCreateSchema), then the
\* controller hands the parsed body and the token's user id to the service.
\* (routes/accountRoutes.ts:18, accountController.ts:4-26)
PostAccount(p, U, Bodies) ==
    /\ Ready(p)
    /\ Cardinality(DOMAIN accounts \cap NewAccountIds)
          + Cardinality(InFlightOpen) < MaxOpen
    /\ \E u \in U, b \in Bodies :
         LET issues == AccountCreateIssues(b)
         IN  IF issues # <<>>
             THEN /\ req' = [req EXCEPT ![p] =
                               [NoReq EXCEPT !.op = "createAccount", !.user = u,
                                             !.body = b]]
                  /\ pc' = [pc EXCEPT ![p] = "done"]
                  /\ resp' = [resp EXCEPT ![p] =
                                ErrorResponse(400, "Validation failed: " \o issues[1])]
                  /\ UNCHANGED <<users, accounts, transactions, snap>>
             ELSE CallCreateAccount(p, u, AccountCreateParse(b))

\* accountService.ts:30-37
AccountFindUser(p) ==
    /\ pc[p] = "findUser"
    /\ IF req[p].user \in DOMAIN users
       THEN /\ pc' = [pc EXCEPT ![p] = "insert"]
            /\ resp' = resp
       ELSE /\ pc' = [pc EXCEPT ![p] = "done"]
            /\ resp' = [resp EXCEPT ![p] = ErrorResponse(404, "User not found")]
    /\ UNCHANGED <<users, accounts, transactions, req, snap>>

\* prisma.account.create: the store refuses a row whose account number
\* another row holds (accountService.ts:22 reads the column as unique) or
\* whose owner is no user; the service turns that into its 500.
\* (accountService.ts:39-58)
AccountCreate(p) ==
    /\ pc[p] = "insert"
    /\ LET data == CreateData(req[p].body, req[p].user)
           row  == CreatedAccount(data)
           id   == CHOOSE a \in NewAccountIds : a \notin DOMAIN accounts
       IN  IF NumberHeld(row.accountNumber) \/ row.userId \notin DOMAIN users
           THEN /\ resp' = [resp EXCEPT ![p] =
                              ErrorResponse(500, "Failed to create account")]
                /\ accounts' = accounts
           ELSE /\ accounts' = [a \in DOMAIN accounts \cup {id} |->
                                  IF a = id THEN row ELSE accounts[a]]
                /\ resp' = [resp EXCEPT ![p] =
                              [status |-> 201, msg |-> "Account created successfully",
                               accts |-> <<row>>, txs |-> <<>>]]
    /\ pc' = [pc EXCEPT ![p] = "done"]
    /\ UNCHANGED <<users, transactions, req, snap>>

(* -------------------------------- users ------------------------------- *)

\* Ids the store hands out to users registered later.
NewUserIds == {"u3", "u4", "u5"}

\* createUser requests in hand that may still insert a row.
InFlightRegister == {q \in Procs : pc[q] = "userInsert"}

\* userService.ts:30-35: the row createUser stores (the password hash and the
\* last name play no part in any check).
UserRow(email, firstName, password) ==
    [email |-> email, firstName |-> firstName, password |-> password]

\* utils/password hashPassword: bcrypt.hash(password, SALT_ROUNDS). The digest
\* is kept as a value that is not the password and is determined by it (the
\* salt travels inside the digest). (unnamed/part_010:10-12)
hashPassword(password) == <<"bcrypt", password>>

\* utils/password comparePassword: bcrypt.compare(password, hashedPassword)
\* (unnamed/part_010:20-25)
comparePassword(password, hashedPassword) == hashedPassword = hashPassword(password)

\* Mutant: the lookup by email never finds a row.
EmailHeld_Never(email) == FALSE

\* prisma.user.findUnique({ where: { email } }) finds a row.
EmailHeld(email) == \E u \in DOMAIN users : users[u].email = email

\* POST /v1/users up to the await of user.create: the body has passed
\* userCreateSchema, the service has looked the email up and hashed the
\* password (the hash touches nothing in the store).
\* (unnamed/part_008:18, userController.ts:4-23, userService.ts:16-27)
PostUser(p, Emails) ==
    /\ Ready(p)
    /\ Cardinality(DOMAIN users \cap NewUserIds)
          + Cardinality(InFlightRegister) < MaxRegister
    /\ \E e \in Emails :
         /\ req' = [req EXCEPT ![p] =
                      [NoReq EXCEPT !.op = "createUser",
                                    !.body = [NoBody EXCEPT !.email = Some(e),
                                                            !.firstName = Some("f1"),
                                                            !.password = Some("pw1")]]]
         /\ IF EmailHeld(e)
            THEN /\ pc' = [pc EXCEPT ![p] = "done"]
                 /\ resp' = [resp EXCEPT ![p] =
                               ErrorResponse(409, "User with this email already exists")]
            ELSE /\ pc' = [pc EXCEPT ![p] = "userInsert"]
                 /\ resp' = [resp EXCEPT ![p] = NoResp]
    /\ UNCHANGED <<users, accounts, transactions, snap>>

\* prisma.user.create: the store refuses a row whose email another row holds
\* (userService.ts:18 reads the column as unique); the service turns that
\* into its 500. (userService.ts:29-49)
UserCreate(p) ==
    /\ pc[p] = "userInsert"
    /\ LET e  == req[p].body.email[1]
           id == CHOOSE u \in NewUserIds : u \notin DOMAIN users
       IN  IF EmailHeld(e)
           THEN /\ resp' = [resp EXCEPT ![p] =
                              ErrorResponse(500, "Failed to create user")]
                /\ users' = users
           ELSE /\ users' = [u \in DOMAIN users \cup {id} |->
                               IF u = id
                               THEN UserRow(e, req[p].body.firstName[1],
                                            hashPassword(req[p].body.password[1]))
                               ELSE users[u]]
                /\ resp' = [resp EXCEPT ![p] =
                              [status |-> 201, msg |-> "User created successfully",
                               accts |-> <<>>, txs |-> <<>>]]
    /\ pc' = [pc EXCEPT ![p] = "done"]
    /\ UNCHANGED <<accounts, transactions, req, snap>>

\* validateRequest(userUpdateSchema): the refinement of the schema
\* (unnamed/part_006:297-317)
UserUpdateIssues(body) ==
    IF body.email = None /\ body.firstName = None
    THEN <<"At least one field must be provided for update">>
    ELSE <<>>

\* The response of the controllers to a path id that is not the token's.
\* (userController.ts:90-96, 128-134)
NotSelf(verb) ==
    [status |-> 403,
     msg |-> "Forbidden: You can only " \o verb \o " your own user data",
     accts |-> <<>>, txs |-> <<>>]

\* PATCH /v1/users/:userId up to the second await of the service: the
\* schema, the controller's comparison of the path id with the token's, the
\* read of the user row, and the choice whether the email needs looking up.
\* (unnamed/part_008:22-27, userController.ts:71-108, userService.ts:132-143)
PatchUser(p, U, Targets, Bodies) ==
    /\ Ready(p)
    /\ \E u \in U, t \in Targets, b \in Bodies :
         LET issues == UserUpdateIssues(b)
         IN  /\ req' = [req EXCEPT ![p] =
                          [NoReq EXCEPT !.op = "updateUser", !.user = u,
                                        !.userId = t, !.body = b]]
             /\ IF issues # <<>>
                THEN /\ pc' = [pc EXCEPT ![p] = "done"]
                     /\ resp' = [resp EXCEPT ![p] =
                                   ErrorResponse(400, "Validation failed: " \o issues[1])]
                ELSE IF t # u
                THEN /\ pc' = [pc EXCEPT ![p] = "done"]
                     /\ resp' = [resp EXCEPT ![p] = NotSelf("update")]
                ELSE IF t \notin DOMAIN users
                THEN /\ pc' = [pc EXCEPT ![p] = "done"]
                     /\ resp' = [resp EXCEPT ![p] = ErrorResponse(404, "User not found")]
                ELSE /\ pc' = [pc EXCEPT ![p] =
                                 IF b.email # None /\ b.email[1] # users[t].email
                                 THEN "findEmail" ELSE "userUpdate"]
                     /\ resp' = [resp EXCEPT ![p] = NoResp]
    /\ UNCHANGED <<users, accounts, transactions, snap>>

\* userService.ts:144-150
UserFindEmail(p) ==
    /\ pc[p] = "findEmail"
    /\ IF EmailHeld(req[p].body.email[1])
       THEN /\ pc' = [pc EXCEPT ![p] = "done"]
            /\ resp' = [resp EXCEPT ![p] = ErrorResponse(409, "Email already in use")]
       ELSE /\ pc' = [pc EXCEPT ![p] = "userUpdate"]
            /\ resp' = resp
    /\ UNCHANGED <<users, accounts, transactions, req, snap>>

\* prisma.user.update({ where: { id }, data: updateData }): the store refuses
\* when the row is gone or another row holds the email.
\* (userService.ts:153-168)
UserUpdate(p) ==
    /\ pc[p] = "userUpdate"
    /\ LET t == req[p].userId
           b == req[p].body
       IN  IF \/ t \notin DOMAIN users
              \/ /\ b.email # None
                 /\ \E o \in DOMAIN users \ {t} : users[o].email = b.email[1]
           THEN /\ resp' = [resp EXCEPT ![p] =
                              ErrorResponse(500, "Failed to update user")]
                /\ users' = users
           ELSE /\ users' = [users EXCEPT ![t] =
                               [f \in DOMAIN users[t] |->
                                  IF b[f] = None THEN users[t][f] ELSE b[f][1]]]
                /\ resp' = [resp EXCEPT ![p] =
                              [status |-> 200, msg |-> "User updated successfully",
                               accts |-> <<>>, txs |-> <<>>]]
    /\ pc' = [pc EXCEPT ![p] = "done"]
    /\ UNCHANGED <<accounts, transactions, req, snap>>

\* existingUser.accounts of findUnique({ where: { id }, include: { accounts } })
AccountsOf(userId) == {a \in DOMAIN accounts : accounts[a].userId = userId}

\* DELETE /v1/users/:userId up to the await of user.delete
\* (unnamed/part_008:28, userController.ts:110-145, userService.ts:176-195)
DeleteUser(p, U, Targets) ==
    /\ Ready(p)
    /\ \E u \in U, t \in Targets :
         /\ req' = [req EXCEPT ![p] =
                      [NoReq EXCEPT !.op = "deleteUser", !.user = u, !.userId = t]]
         /\ IF t # u
            THEN /\ pc' = [pc EXCEPT ![p] = "done"]
                 /\ resp' = [resp EXCEPT ![p] = NotSelf("delete")]
            ELSE IF t \notin DOMAIN users
            THEN /\ pc' = [pc EXCEPT ![p] = "done"]
                 /\ resp' = [resp EXCEPT ![p] = ErrorResponse(404, "User not found")]
            ELSE IF AccountsOf(t) # {}
            THEN /\ pc' = [pc EXCEPT ![p] = "done"]
                 /\ resp' = [resp EXCEPT ![p] =
                      ErrorResponse(409, "Cannot delete user with existing bank accounts")]
            ELSE /\ pc' = [pc EXCEPT ![p] = "userDelete"]
                 /\ resp' = [resp EXCEPT ![p] = NoResp]
    /\ UNCHANGED <<users, accounts, transactions, snap>>

\* What the store does with a delete of a user row: it refuses when the row
\* is gone, and when account rows still reference it ("deletion blocked
\* while the user owns any Account").
UserDeleteRefused(userId) ==
    \/ userId \notin DOMAIN users
    \/ AccountsOf(userId) # {}

\* userService.ts:197-206
UserDelete(p) ==
    /\ pc[p] = "userDelete"
    /\ IF UserDeleteRefused(req[p].userId)
       THEN /\ resp' = [resp EXCEPT ![p] =
                          ErrorResponse(500, "Failed to delete user")]
            /\ users' = users
       ELSE /\ users' = [u \in DOMAIN users \ {req[p].userId} |-> users[u]]
            /\ resp' = [resp EXCEPT ![p] =
                          [status |-> 200, msg |-> "User deleted successfully",
                           accts |-> <<>>, txs |-> <<>>]]
    /\ pc' = [pc EXCEPT ![p] = "done"]
    /\ UNCHANGED <<accounts, transactions, req, snap>>

(* --------------------------- specifications --------------------------- *)

\* accountService.ts:40-47: the row createAccount stores.
NewAccount(number, currency, type, userId) ==
    [accountNumber |-> number, balance |-> 0, currency |-> currency,
     type |-> type, status |-> "ACTIVE", userId |-> userId]


\* The email each user registered with.
Registered == [u \in UserIds |-> IF u = "u1" THEN "e1" ELSE "e2"]

\* Both users registered, u1 has opened one account, nothing else yet.
Init ==
    /\ users = [u \in UserIds |-> UserRow(Registered[u], "f1", hashPassword("pw1"))]
    /\ accounts = [a \in {AcctA} |-> NewAccount("n1", "GBP", "CHECKING", "u1")]
    /\ transactions = <<>>
    /\ pc = [p \in Procs |-> "idle"]
    /\ req = [p \in Procs |-> NoReq]
    /\ snap = [p \in Procs |-> None]
    /\ resp = [p \in Procs |-> NoResp]

\* The account owner's ledger requests racing with each other and with the
\* owner's status changes and account deletion.
OwnerIds == {"u1"}
LedgerTypes == {"DEPOSIT", "WITHDRAWAL", "TRANSFER"}
LedgerAmounts == {-1, 1, 2}
StatusBodies ==
    {[NoBody EXCEPT !.status = Some("SUSPENDED")],
     [NoBody EXCEPT !.status = Some("ACTIVE")]}

Next ==
    \E p \in Procs :
        \/ PostTransaction(p, OwnerIds, {AcctA}, LedgerTypes, LedgerAmounts, {TRUE})
        \/ TxCreate(p)
        \/ TxUpdate(p)
        \/ PatchAccount(p, OwnerIds, {AcctA}, StatusBodies)
        \/ AccountUpdate(p)
        \/ DeleteAccount(p, OwnerIds, {AcctA})
        \/ DeleteCount(p)
        \/ AccountDelete(p)

Spec == Init /\ [][Next]_vars

\* Both users calling every account-scoped operation on the account.
AccessBodies ==
    {[NoBody EXCEPT !.status = Some("SUSPENDED")],
     [NoBody EXCEPT !.balance = Some(2)],
     [NoBody EXCEPT !.userId = Some("u2")]}

NextAccess ==
    \E p \in Procs :
        \/ PostTransaction(p, UserIds, {AcctA}, {"DEPOSIT"}, {1}, {TRUE})
        \/ TxCreate(p)
        \/ TxUpdate(p)
        \/ GetAccount(p, UserIds, {AcctA})
        \/ PatchAccount(p, UserIds, {AcctA}, AccessBodies)
        \/ AccountUpdate(p)
        \/ DeleteAccount(p, UserIds, {AcctA})
        \/ DeleteCount(p)
        \/ AccountDelete(p)
        \/ GetTransactions(p, UserIds, {AcctA})
        \/ ListTransactions(p)

SpecAccess == Init /\ [][NextAccess]_vars

\* The owner's PATCH requests, one at a time, with bodies carrying fields of
\* every kind, between the owner's deposits.
FieldBodies ==
    {[NoBody EXCEPT !.status = Some("SUSPENDED")],
     [NoBody EXCEPT !.currency = Some("USD")],
     [NoBody EXCEPT !.type = Some("SAVINGS")],
     [NoBody EXCEPT !.balance = Some(2)],
     [NoBody EXCEPT !.accountNumber = Some("n2")],
     [NoBody EXCEPT !.userId = Some("u2")],
     [NoBody EXCEPT !.status = Some("ACTIVE"), !.balance = Some(0)]}

NextPatch ==
    \E p \in {"r1"} :
        \/ PatchAccount(p, OwnerIds, {AcctA}, FieldBodies)
        \/ AccountUpdate(p)
        \/ PostTransaction(p, OwnerIds, {AcctA}, {"DEPOSIT"}, {1}, {TRUE})
        \/ TxCreate(p)
        \/ TxUpdate(p)

SpecPatch == Init /\ [][NextPatch]_vars

\* Deposits and withdrawals only, racing on one account.
NextRace ==
    \E p \in Procs :
        \/ PostTransaction(p, OwnerIds, {AcctA}, {"DEPOSIT", "WITHDRAWAL"},
                           LedgerAmounts, {TRUE})
        \/ TxCreate(p)
        \/ TxUpdate(p)

SpecRace == Init /\ [][NextRace]_vars

(* ------------------------------ properties ---------------------------- *)

\* Request p took this step.
Stepped(p) ==
    <<pc[p], req[p], snap[p], resp[p]>> # <<pc'[p], req'[p], snap'[p], resp'[p]>>

\* This step is the arrival of a request of p for operation op.
Starts(p, op) == Ready(p) /\ Stepped(p) /\ req'[p].op = op

\* This step is the commit of p's storage transaction.
Commits(p) == pc[p] = "txUpdate" /\ resp'[p].status = 201

\* This step changes nothing in the store.
StoreUnchanged == UNCHANGED <<users, accounts, transactions>>

\* The account row a createTransaction arriving in this step reads.
RowRead(p) == FindFirstAccount(req'[p].acct, req'[p].user)

\* The rows this step appends to the transactions table.
Appended == SubSeq(transactions', Len(transactions) + 1, Len(transactions'))

RowsKept == SubSeq(transactions', 1, Len(transactions)) = transactions

\* Deposits minus withdrawals over the rows of one account.
RECURSIVE LedgerSum(_, _)
LedgerSum(rows, accountId) ==
    IF rows = <<>> THEN 0
    ELSE LET row == rows[Len(rows)]
             rest == LedgerSum(SubSeq(rows, 1, Len(rows) - 1), accountId)
         IN  IF row.accountId # accountId THEN rest
             ELSE IF row.type = "DEPOSIT" THEN rest + row.amount
             ELSE IF row.type = "WITHDRAWAL" THEN rest - row.amount
             ELSE rest

\* C1: no lost update.  Whenever a deposit or withdrawal commits, the balance
\* it leaves is the balance committed just before it plus (deposit) or minus
\* (withdrawal) its amount, so the effect of every earlier commit survives.
C1_NoLostUpdate ==
    [][\A p \in Procs :
         Commits(p) /\ req[p].type \in {"DEPOSIT", "WITHDRAWAL"} =>
            accounts'[req[p].acct].balance =
               accounts[req[p].acct].balance
                  + (IF req[p].type = "DEPOSIT" THEN req[p].amount ELSE -req[p].amount)]_vars

\* C2: in every reachable state each account's balance equals the sum of its
\* DEPOSIT amounts minus the sum of its WITHDRAWAL amounts.
C2_BalanceIsLedgerSum ==
    \A a \in DOMAIN accounts : accounts[a].balance = LedgerSum(transactions, a)

\* C3: a DEPOSIT of d > 0 arriving for an owned ACTIVE account is not
\* rejected, and when it commits, with b the balance the request read, the
\* account balance becomes b + d and exactly one row is added, with
\* balanceBefore = b and balanceAfter = b + d.
C3_DepositEffect ==
    [][\A p \in Procs :
         /\ ( /\ Starts(p, "createTransaction")
              /\ req'[p].type = "DEPOSIT" /\ req'[p].amount > 0
              /\ SchemaIssues(req'[p]) = <<>>
              /\ RowRead(p) # None /\ RowRead(p)[1].status = "ACTIVE" )
            => pc'[p] = "txCreate" /\ snap'[p] = RowRead(p) /\ StoreUnchanged
         /\ ( Commits(p) /\ req[p].type = "DEPOSIT" )
            => LET b == snap[p][1].balance
                   d == req[p].amount
               IN  /\ accounts'[req[p].acct].balance = b + d
                   /\ RowsKept /\ Len(Appended) = 1
                   /\ Appended[1].accountId = req[p].acct
                   /\ Appended[1].type = "DEPOSIT"
                   /\ Appended[1].amount = d
                   /\ Appended[1].balanceBefore = b
                   /\ Appended[1].balanceAfter = b + d
                   /\ resp'[p].txs = Appended]_vars

\* C3 witness: a deposit onto a non-zero balance has been answered 201.
C3_Witness ==
    \E p \in Procs :
        /\ pc[p] = "done" /\ req[p].type = "DEPOSIT" /\ resp[p].status = 201
        /\ resp[p].txs[1].balanceBefore > 0
        /\ resp[p].txs[1].balanceAfter = resp[p].txs[1].balanceBefore + req[p].amount

\* C4: a WITHDRAWAL of w with 0 < w <= b arriving for an owned ACTIVE account
\* that it reads with balance b is not rejected, and when it commits the
\* account balance becomes b - w and the row added has balanceBefore = b and
\* balanceAfter = b - w; w = b leaves 0.
C4_WithdrawalEffect ==
    [][\A p \in Procs :
         /\ ( /\ Starts(p, "createTransaction")
              /\ req'[p].type = "WITHDRAWAL" /\ req'[p].amount > 0
              /\ SchemaIssues(req'[p]) = <<>>
              /\ RowRead(p) # None /\ RowRead(p)[1].status = "ACTIVE"
              /\ req'[p].amount <= RowRead(p)[1].balance )
            => pc'[p] = "txCreate" /\ snap'[p] = RowRead(p) /\ StoreUnchanged
         /\ ( Commits(p) /\ req[p].type = "WITHDRAWAL" )
            => LET b == snap[p][1].balance
                   w == req[p].amount
               IN  /\ 0 < w /\ w <= b
                   /\ accounts'[req[p].acct].balance = b - w
                   /\ RowsKept /\ Len(Appended) = 1
                   /\ Appended[1].accountId = req[p].acct
                   /\ Appended[1].type = "WITHDRAWAL"
                   /\ Appended[1].amount = w
                   /\ Appended[1].balanceBefore = b
                   /\ Appended[1].balanceAfter = b - w
                   /\ (w = b => accounts'[req[p].acct].balance = 0)
                   /\ resp'[p].txs = Appended]_vars

\* C4 witness: a withdrawal of the whole balance has been answered 201 and
\* the account stands at 0.
C4_Witness ==
    \E p \in Procs :
        /\ pc[p] = "done" /\ req[p].type = "WITHDRAWAL" /\ resp[p].status = 201
        /\ resp[p].txs[1].balanceBefore = req[p].amount
        /\ resp[p].txs[1].balanceAfter = 0
        /\ req[p].acct \in DOMAIN accounts /\ accounts[req[p].acct].balance = 0

\* C5: a WITHDRAWAL of a positive amount greater than the balance it reads on
\* an owned ACTIVE account is answered 400 "Insufficient funds"; the step adds
\* no row and changes no account, so repeating it changes nothing either.
C5_InsufficientFunds ==
    [][\A p \in Procs :
         ( /\ Starts(p, "createTransaction")
           /\ req'[p].type = "WITHDRAWAL" /\ req'[p].amount > 0
           /\ SchemaIssues(req'[p]) = <<>>
           /\ RowRead(p) # None /\ RowRead(p)[1].status = "ACTIVE"
           /\ req'[p].amount > RowRead(p)[1].balance )
         => /\ pc'[p] = "done"
            /\ resp'[p] = ErrorResponse(400, "Insufficient funds")
            /\ StoreUnchanged]_vars

\* C5 witness: a withdrawal was refused for insufficient funds on an account
\* that holds a positive balance.
C5_Witness ==
    \E p \in Procs :
        /\ pc[p] = "done" /\ req[p].type = "WITHDRAWAL"
        /\ resp[p] = ErrorResponse(400, "Insufficient funds")
        /\ req[p].acct \in DOMAIN accounts
        /\ accounts[req[p].acct].balance > 0
        /\ accounts[req[p].acct].balance < req[p].amount

\* C6: the row insert and the balance update of one createTransaction become
\* visible in the same step or not at all: every step of a createTransaction
\* request either adds exactly its row and leaves the account balance at that
\* row's balanceAfter, or changes neither table.
C6_AtomicCommit ==
    [][\A p \in Procs :
         (Stepped(p) /\ req'[p].op = "createTransaction") =>
            \/ /\ RowsKept /\ Len(Appended) = 1
               /\ Appended[1].accountId = req[p].acct
               /\ req[p].acct \in DOMAIN accounts'
               /\ accounts'[req[p].acct].balance = Appended[1].balanceAfter
               /\ \A a \in DOMAIN accounts' \ {req[p].acct} :
                    a \in DOMAIN accounts /\ accounts'[a] = accounts[a]
               /\ resp'[p].status = 201
            \/ /\ StoreUnchanged
               /\ resp'[p].status # 201]_vars

\* C6 witness: one createTransaction has committed (its row is visible and
\* the balance is that row's balanceAfter) while another has made its insert
\* inside a storage transaction that is not committed, and no reader sees it.
C6_Witness ==
    \E p, q \in Procs :
        /\ pc[p] = "done" /\ req[p].op = "createTransaction" /\ resp[p].status = 201
        /\ pc[q] = "txUpdate"
        /\ Len(transactions) = 1
        /\ transactions[1] = resp[p].txs[1]
        /\ accounts[req[p].acct].balance = transactions[1].balanceAfter

\* C7: in every reachable state every account's balance is >= 0.
C7_NonNegativeBalance ==
    \A a \in DOMAIN accounts : accounts[a].balance >= 0

\* C10: a createTransaction arriving for an owned account whose status is not
\* ACTIVE is answered 400 with the inactive-account error, whatever its type
\* and amount and whatever the balance, and the step changes nothing in the
\* store.
C10_InactiveRejected ==
    [][\A p \in Procs :
         ( /\ Starts(p, "createTransaction")
           /\ SchemaIssues(req'[p]) = <<>>
           /\ RowRead(p) # None /\ RowRead(p)[1].status # "ACTIVE" )
         => /\ pc'[p] = "done"
            /\ resp'[p] = ErrorResponse(400, "Cannot perform transactions on inactive account")
            /\ StoreUnchanged]_vars

\* C10 witness: a withdrawal the balance would cover was refused because the
\* account is suspended.
C10_Witness ==
    \E p \in Procs :
        /\ pc[p] = "done" /\ req[p].type = "WITHDRAWAL"
        /\ resp[p] = ErrorResponse(400, "Cannot perform transactions on inactive account")
        /\ req[p].acct \in DOMAIN accounts
        /\ accounts[req[p].acct].status = "SUSPENDED"
        /\ accounts[req[p].acct].balance >= req[p].amount

\* C8: updateAccount leaves the balance, the account number and the owner of
\* the account as they were, whatever the request body carries.
C8_UpdateFrame ==
    [][\A p \in Procs :
         (pc[p] = "update" /\ Stepped(p) /\ req[p].acct \in DOMAIN accounts) =>
            /\ req[p].acct \in DOMAIN accounts'
            /\ accounts'[req[p].acct].balance = accounts[req[p].acct].balance
            /\ accounts'[req[p].acct].accountNumber = accounts[req[p].acct].accountNumber
            /\ accounts'[req[p].acct].userId = accounts[req[p].acct].userId]_vars

GuardedOps ==
    {"getAccountById", "updateAccount", "deleteAccount",
     "createTransaction", "getTransactionsByAccountId"}

\* C9: a request for one of the five account-scoped operations that arrives
\* from a user who does not own the account it names is answered with an
\* error (403 or 404) that carries no account and no transaction data, and
\* the step leaves every account and every transaction as it was.
C9_NonOwnerDenied ==
    [][\A p \in Procs :
         ( /\ Ready(p) /\ Stepped(p)
           /\ req'[p].op \in GuardedOps
           /\ req'[p].op = "createTransaction" => SchemaIssues(req'[p]) = <<>>
           /\ req'[p].acct \in DOMAIN accounts
           /\ accounts[req'[p].acct].userId # req'[p].user )
         => /\ pc'[p] = "done"
            /\ resp'[p].status \in {403, 404}
            /\ resp'[p].accts = <<>> /\ resp'[p].txs = <<>>
            /\ StoreUnchanged]_vars

\* C9 witness: two users whose requests on an account of the other user, which
\* holds a transaction, were both refused.
C9_Witness ==
    \E p, q \in Procs :
        /\ p # q
        /\ pc[p] = "done" /\ req[p].op = "createTransaction"
        /\ pc[q] = "done" /\ req[q].op = "getAccountById"
        /\ req[p].acct \in DOMAIN accounts /\ req[q].acct = req[p].acct
        /\ accounts[req[p].acct].userId # req[p].user
        /\ accounts[req[q].acct].userId # req[q].user
        /\ resp[p].status = 404 /\ resp[q].status = 403
        /\ Len(transactions) > 0

(* ------------------- request validation of POST bodies ---------------- *)

\* One caller at a time sending createTransaction bodies of every shape: a
\* type inside and outside the enum of the schema, amounts below, at and
\* above zero, with and without accountId in the body, for the account and
\* for an id no account has, as the owner and as the other user.
ValidateTypes == {"DEPOSIT", "WITHDRAWAL", "TRANSFER", "REFUND"}
ValidateAmounts == {-1, 0, 1}

NextValidate ==
    \E p \in {"r1"} :
        \/ PostTransaction(p, UserIds, {AcctA, AcctMissing}, ValidateTypes,
                           ValidateAmounts, {TRUE, FALSE})
        \/ TxCreate(p)
        \/ TxUpdate(p)

SpecValidate == Init /\ [][NextValidate]_vars

\* C11: a DEPOSIT or WITHDRAWAL request whose amount is zero or negative is
\* answered with status 400, and the step adds no transaction and changes no
\* balance.
C11_NonPositiveAmountRejected ==
    [][\A p \in Procs :
         ( /\ Starts(p, "createTransaction")
           /\ req'[p].type \in {"DEPOSIT", "WITHDRAWAL"}
           /\ req'[p].amount <= 0 )
         => /\ pc'[p] = "done"
            /\ resp'[p].status = 400
            /\ StoreUnchanged]_vars

\* C12: a createTransaction request whose type is neither DEPOSIT nor
\* WITHDRAWAL is answered 400 and changes nothing in the store, and every row
\* of the transactions table has type DEPOSIT or WITHDRAWAL.
C12_OnlyDepositOrWithdrawal ==
    [][/\ \A p \in Procs :
            ( /\ Starts(p, "createTransaction")
              /\ req'[p].type \notin {"DEPOSIT", "WITHDRAWAL"} )
            => /\ pc'[p] = "done"
               /\ resp'[p].status = 400
               /\ StoreUnchanged
       /\ \A i \in 1..Len(transactions') :
            transactions'[i].type \in {"DEPOSIT", "WITHDRAWAL"}]_vars

\* C13: a createTransaction request of the owner for an ACTIVE account, with
\* type DEPOSIT or WITHDRAWAL, a positive amount within the funds, and the
\* account id in the path only (none in the body), passes validation and goes
\* on to the storage transaction that answers 201.
C13_PathOnlyAccountId ==
    [][\A p \in Procs :
         ( /\ Starts(p, "createTransaction")
           /\ ~req'[p].bodyAcct
           /\ req'[p].type \in {"DEPOSIT", "WITHDRAWAL"}
           /\ req'[p].amount > 0
           /\ RowRead(p) # None /\ RowRead(p)[1].status = "ACTIVE"
           /\ req'[p].type = "WITHDRAWAL" => req'[p].amount <= RowRead(p)[1].balance )
         => /\ pc'[p] = "txCreate"
            /\ resp'[p].status # 400]_vars

(* ------------------ probing for accounts of other users --------------- *)

\* Both users sending createTransaction and list requests for the account of
\* u1 and for an id no account has.  No request here deletes an account or
\* changes its owner.
NextProbe ==
    \E p \in Procs :
        \/ PostTransaction(p, UserIds, {AcctA, AcctMissing}, {"DEPOSIT"}, {-1, 1}, {TRUE})
        \/ TxCreate(p)
        \/ TxUpdate(p)
        \/ GetTransactions(p, UserIds, {AcctA, AcctMissing})
        \/ ListTransactions(p)

SpecProbe == Init /\ [][NextProbe]_vars

\* The answered request of p named an account that exists and that its caller
\* does not own.
ForeignAccount(p) ==
    /\ req[p].acct \in DOMAIN accounts
    /\ accounts[req[p].acct].userId # req[p].user

OpenNumbers == {"n1", "n2", "n3"}

PlainBodies ==
    {[NoBody EXCEPT !.accountNumber = Some(n), !.currency = Some("GBP"),
                    !.type = Some("SAVINGS")] : n \in OpenNumbers}

OpenBodies ==
    PlainBodies
    \cup {[b EXCEPT !.balance = Some(2), !.status = Some("SUSPENDED"),
                    !.userId = Some("u1")] : b \in PlainBodies}
    \cup {[NoBody EXCEPT !.accountNumber = Some("n2"), !.currency = Some("XXX"),
                         !.type = Some("SAVINGS")]}

OpenData == OpenBodies \ {b \in OpenBodies : AccountCreateIssues(b) # <<>>}

NextOpen ==
    \E p \in Procs :
        \/ PostAccount(p, UserIds, OpenBodies)
        \/ CreateAccount(p, UserIds, OpenData)
        \/ AccountFindUser(p)
        \/ AccountCreate(p)
        \/ DeleteUser(p, {"u2"}, {"u2"})
        \/ UserDelete(p)

SpecOpen == Init /\ [][NextOpen]_vars

\* The accounts this step adds to the accounts table.
Opened == DOMAIN accounts' \ DOMAIN accounts

\* C15: every account a createAccount call stores has balance 0, status
\* ACTIVE and the caller as its owner, whatever balance, status or userId the
\* data of the call carries; the response shows the row as stored.
C15_CreateForcesFields ==
    [][\A p \in Procs :
         (pc[p] = "insert" /\ Stepped(p)) =>
            /\ \A a \in Opened :
                 /\ accounts'[a].balance = 0
                 /\ accounts'[a].status = "ACTIVE"
                 /\ accounts'[a].userId = req[p].user
                 /\ resp'[p].accts = <<accounts'[a]>>
            /\ resp'[p].status = 201 <=> Cardinality(Opened) = 1]_vars

\* C15 witness: a createAccount call of u2 whose data named balance 2, status
\* SUSPENDED and owner u1 has been answered 201, and the account it opened
\* belongs to u2, is ACTIVE and holds 0.
C15_Witness ==
    \E p \in Procs :
        /\ pc[p] = "done" /\ req[p].op = "createAccount" /\ resp[p].status = 201
        /\ req[p].user = "u2"
        /\ req[p].body.balance = Some(2)
        /\ req[p].body.status = Some("SUSPENDED")
        /\ req[p].body.userId = Some("u1")
        /\ \E a \in NewAccountIds \cap DOMAIN accounts :
             /\ accounts[a].accountNumber = req[p].body.accountNumber[1]
             /\ accounts[a].userId = "u2"
             /\ accounts[a].balance = 0
             /\ accounts[a].status = "ACTIVE"

\* C16: no two accounts ever share an account number, and a createAccount
\* call, alone or racing with others, that comes to an end while an account
\* holds its number ends with 409 "Account number already exists" and adds
\* no account.
C16_UniqueAccountNumber ==
    [][/\ \A a, b \in DOMAIN accounts' :
            accounts'[a].accountNumber = accounts'[b].accountNumber => a = b
       /\ \A p \in Procs :
            ( /\ Stepped(p) /\ req'[p].op = "createAccount" /\ pc'[p] = "done"
              /\ AccountCreateIssues(req'[p].body) = <<>>
              /\ NumberHeld(req'[p].body.accountNumber[1]) )
            => /\ resp'[p] = ErrorResponse(409, "Account number already exists")
               /\ accounts' = accounts]_vars

(* ------------------------- registering and renaming ------------------- *)

\* Registrations with an email that is taken and with one that is free,
\* racing with each other and with the two users changing their email or
\* their first name.
RegisterEmails == {"e1", "e3"}

RenameBodies ==
    {[NoBody EXCEPT !.email = Some(e)] : e \in {"e2", "e3"}}
    \cup {[NoBody EXCEPT !.firstName = Some("f2")], NoBody}

NextUsers ==
    \E p \in Procs :
        \/ PostUser(p, RegisterEmails)
        \/ UserCreate(p)
        \/ PatchUser(p, UserIds, UserIds, RenameBodies)
        \/ UserFindEmail(p)
        \/ UserUpdate(p)

SpecUsers == Init /\ [][NextUsers]_vars

\* C17: no two users ever share an email; a createUser call that finds its
\* email registered is answered 409 "User with this email already exists"
\* and adds no user; an updateUser call that finds its new email held by a
\* different user is answered 409 and changes no user.
C17_UniqueEmail ==
    [][/\ \A u, v \in DOMAIN users' : users'[u].email = users'[v].email => u = v
       /\ \A p \in Procs :
            /\ ( /\ Starts(p, "createUser")
                 /\ \E u \in DOMAIN users : users[u].email = req'[p].body.email[1] )
               => /\ pc'[p] = "done"
                  /\ resp'[p] = ErrorResponse(409, "User with this email already exists")
                  /\ users' = users
            /\ ( /\ pc[p] = "findEmail" /\ Stepped(p)
                 /\ \E u \in DOMAIN users \ {req[p].userId} :
                      users[u].email = req[p].body.email[1] )
               => /\ pc'[p] = "done"
                  /\ resp'[p].status = 409
                  /\ users' = users]_vars

\* C17 witness: a third user has registered with a free email; after that a
\* registration with the email of u1 and a change of u2's email to the third
\* user's were both answered 409, and the three emails differ.
C17_Witness ==
    \E p, q \in Procs :
        /\ pc[p] = "done" /\ req[p].op = "createUser"
        /\ req[p].body.email = Some("e1") /\ resp[p].status = 409
        /\ pc[q] = "done" /\ req[q].op = "updateUser"
        /\ req[q].userId = "u2" /\ req[q].body.email = Some("e3")
        /\ resp[q].status = 409
        /\ \E n \in NewUserIds \cap DOMAIN users : users[n].email = "e3"
        /\ users["u1"].email = "e1" /\ users["u2"].email = "e2"

(* ------------------------------ deleting ------------------------------ *)

\* The owner's deposits on the account racing with the owner's deletes of
\* the account, and both users deleting their own user row.
NextClose ==
    \E p \in Procs :
        \/ PostTransaction(p, OwnerIds, {AcctA}, {"DEPOSIT"}, {1}, {TRUE})
        \/ TxCreate(p)
        \/ TxUpdate(p)
        \/ DeleteAccount(p, OwnerIds, {AcctA})
        \/ DeleteCount(p)
        \/ AccountDelete(p)
        \/ DeleteUser(p, UserIds, UserIds)
        \/ UserDelete(p)

SpecClose == Init /\ [][NextClose]_vars

\* C18: a deleteAccount call of the owner that finds at least one transaction
\* on the account is answered 409 and leaves the account and every
\* transaction in place; a deleteUser call of a user that finds that user
\* owning at least one account is answered 409 and leaves the user and every
\* account in place.
C18_DeleteConflicts ==
    [][\A p \in Procs :
         /\ ( /\ pc[p] = "count" /\ Stepped(p)
              /\ \E i \in 1..Len(transactions) :
                   transactions[i].accountId = req[p].acct )
            => /\ pc'[p] = "done"
               /\ resp'[p] = ErrorResponse(409, "Cannot delete account with existing transactions")
               /\ StoreUnchanged
         /\ ( /\ Starts(p, "deleteUser")
              /\ req'[p].userId = req'[p].user
              /\ req'[p].userId \in DOMAIN users
              /\ \E a \in DOMAIN accounts : accounts[a].userId = req'[p].userId )
            => /\ pc'[p] = "done"
               /\ resp'[p] = ErrorResponse(409, "Cannot delete user with existing bank accounts")
               /\ StoreUnchanged]_vars

\* C18 witness: the owner's delete of an account holding a transaction and
\* the owner's delete of their own user row were both answered 409; the
\* account, its transaction and the user are all still there.
C18_Witness ==
    \E p, q \in Procs :
        /\ pc[p] = "done" /\ req[p].op = "deleteAccount" /\ resp[p].status = 409
        /\ pc[q] = "done" /\ req[q].op = "deleteUser" /\ resp[q].status = 409
        /\ req[p].acct \in DOMAIN accounts
        /\ \E i \in 1..Len(transactions) : transactions[i].accountId = req[p].acct
        /\ req[q].userId \in DOMAIN users
        /\ accounts[req[p].acct].userId = req[q].userId

(* ----------------------- looking accounts up by id -------------------- *)

\* Both users reading, updating and deleting the account of u1 and an id no
\* account has; the owner's delete makes the id of the account absent too.
NextLookup ==
    \E p \in Procs :
        \/ GetAccount(p, UserIds, {AcctA, AcctMissing})
        \/ PatchAccount(p, UserIds, {AcctA, AcctMissing}, StatusBodies)
        \/ AccountUpdate(p)
        \/ DeleteAccount(p, UserIds, {AcctA, AcctMissing})
        \/ DeleteCount(p)
        \/ AccountDelete(p)

SpecLookup == Init /\ [][NextLookup]_vars

\* C19: a getAccountById, updateAccount or deleteAccount request for an id no
\* account has is answered 404 "Account not found" (what the controller makes
\* of the null that getAccountById returns); for an account of another user
\* each of the three is answered with the same 403; for the caller's own
\* account getAccountById answers with the account, and updateAccount and
\* deleteAccount go on to their write.  A refused request changes nothing.
C19_LookupOutcomes ==
    [][\A p \in Procs :
         ( /\ Ready(p) /\ Stepped(p)
           /\ req'[p].op \in {"getAccountById", "updateAccount", "deleteAccount"} )
         => LET a == req'[p].acct
            IN  /\ StoreUnchanged
                /\ a \notin DOMAIN accounts
                     => /\ pc'[p] = "done"
                        /\ resp'[p] = ErrorResponse(404, "Account not found")
                /\ (a \in DOMAIN accounts /\ accounts[a].userId # req'[p].user)
                     => /\ pc'[p] = "done"
                        /\ resp'[p] = ErrorResponse(403,
                              "Forbidden: You can only access your own accounts")
                /\ (a \in DOMAIN accounts /\ accounts[a].userId = req'[p].user)
                     => IF req'[p].op = "getAccountById"
                        THEN /\ pc'[p] = "done"
                             /\ resp'[p].status = 200
                             /\ resp'[p].accts = <<accounts[a]>>
                        ELSE /\ pc'[p] \in {"update", "count"}
                             /\ resp'[p] = NoResp]_vars

\* C19 witness: after the owner suspended the account, the other user's
\* update of it was answered 403 and the owner's read of an id no account
\* has was answered 404.
C19_Witness ==
    \E p, q \in Procs :
        /\ pc[p] = "done" /\ req[p].op = "updateAccount" /\ req[p].user = "u2"
        /\ req[p].acct \in DOMAIN accounts
        /\ accounts[req[p].acct].userId = "u1"
        /\ accounts[req[p].acct].status = "SUSPENDED"
        /\ resp[p].status = 403
        /\ pc[q] = "done" /\ req[q].op = "getAccountById" /\ req[q].user = "u1"
        /\ req[q].acct \notin DOMAIN accounts
        /\ resp[q].status = 404

(* ------------------------- reading transactions ----------------------- *)

\* u2 opens an account of their own, both users deposit and withdraw on both
\* accounts, the owner of the first account hands it over to u2, and both
\* users read single transactions, account lists and their history with
\* every filter.
AcctB == "a2"

ReadBodies ==
    {[NoBody EXCEPT !.accountNumber = Some("n2"), !.currency = Some("GBP"),
                    !.type = Some("SAVINGS")]}

HandOver == {[NoBody EXCEPT !.userId = Some("u2")]}

NextReads ==
    \/ \E p \in {"r1"} :
        \/ PostAccount(p, {"u2"}, ReadBodies)
        \/ AccountFindUser(p)
        \/ AccountCreate(p)
        \/ PostTransaction(p, UserIds, {AcctA, AcctB}, {"DEPOSIT", "WITHDRAWAL"},
                           {1}, {TRUE})
        \/ TxCreate(p)
        \/ TxUpdate(p)
        \/ PatchAccount(p, UserIds, {AcctA}, HandOver)
        \/ AccountUpdate(p)
    \/ \E p \in {"r2"} :
        \/ GetTransaction(p, UserIds, {AcctA, AcctB}, 1..MaxTx)
        \/ GetTransactions(p, UserIds, {AcctA, AcctB})
        \/ ListTransactions(p)
        \/ GetHistory(p, UserIds, {"", AcctA, AcctB}, {"", "DEPOSIT"})

SpecReads == Init /\ [][NextReads]_vars

\* The rows a response carries.
Returned(p) == {resp'[p].txs[i] : i \in 1..Len(resp'[p].txs)}

\* The account of the row is owned by u when the query runs.
OwnedRow(row, u) ==
    row.accountId \in DOMAIN accounts /\ accounts[row.accountId].userId = u

LoginIssues(email, password) ==
    IF password = "" THEN <<"Password is required">> ELSE <<>>

\* prisma.user.findUnique({ where: { email } }) (userService.ts:63-65)
FindUniqueUserByEmail(email) ==
    IF \E u \in DOMAIN users : users[u].email = email
    THEN Some(users[CHOOSE u \in DOMAIN users : users[u].email = email])
    ELSE None

\* Mutant: an email that is not registered is reported as such.
UnknownEmailResponse_NotFound == ErrorResponse(404, "User not found")

\* userService.ts:67-69
UnknownEmailResponse == ErrorResponse(401, "Invalid email or password")

\* userService.ts:77-79
WrongPasswordResponse == ErrorResponse(401, "Invalid email or password")

\* POST /v1/auth/login up to the await of comparePassword: the schema, then
\* the lookup of the user by email.
\* (authRoutes.ts:9, authController.ts:10-19, userService.ts:58-72)
PostLogin(p, Emails, Passwords) ==
    /\ Ready(p)
    /\ \E e \in Emails, w \in Passwords :
         LET issues == LoginIssues(e, w)
             user   == FindUniqueUserByEmail(e)
         IN  /\ req' = [req EXCEPT ![p] =
                          [NoReq EXCEPT !.op = "login",
                                        !.body = [NoBody EXCEPT !.email = Some(e),
                                                                !.password = Some(w)]]]
             /\ IF issues # <<>>
                THEN /\ pc' = [pc EXCEPT ![p] = "done"]
                     /\ snap' = snap
                     /\ resp' = [resp EXCEPT ![p] =
                                   ErrorResponse(400, "Validation failed: " \o issues[1])]
                ELSE IF user = None
                THEN /\ pc' = [pc EXCEPT ![p] = "done"]
                     /\ snap' = snap
                     /\ resp' = [resp EXCEPT ![p] = UnknownEmailResponse]
                ELSE /\ pc' = [pc EXCEPT ![p] = "compare"]
                     /\ snap' = [snap EXCEPT ![p] = user]
                     /\ resp' = [resp EXCEPT ![p] = NoResp]
    /\ UNCHANGED <<users, accounts, transactions>>

\* comparePassword resolves: against the digest of the row that was read;
\* on a match the controller signs a token and answers 200.
\* (userService.ts:72-84, authController.ts:21-34)
LoginCompare(p) ==
    /\ pc[p] = "compare"
    /\ resp' = [resp EXCEPT ![p] =
                  IF comparePassword(req[p].body.password[1], snap[p][1].password)
                  THEN [status |-> 200, msg |-> "Login successful",
                        accts |-> <<>>, txs |-> <<>>]
                  ELSE WrongPasswordResponse]
    /\ pc' = [pc EXCEPT ![p] = "done"]
    /\ snap' = [snap EXCEPT ![p] = None]
    /\ UNCHANGED <<users, accounts, transactions, req>>

\* Logins with registered and unregistered emails and right, wrong and empty
\* passwords, while a third user registers and users change their email.
LoginEmails == {"e1", "e2", "e3", "e9"}

LoginPasswords == {"pw1", "pw2", ""}

NextLogin ==
    \E p \in Procs :
        \/ PostLogin(p, LoginEmails, LoginPasswords)
        \/ LoginCompare(p)
        \/ PostUser(p, {"e3"})
        \/ UserCreate(p)
        \/ PatchUser(p, UserIds, UserIds, {[NoBody EXCEPT !.email = Some("e3")]})
        \/ UserFindEmail(p)
        \/ UserUpdate(p)

SpecLogin == Init /\ [][NextLogin]_vars

\* C22: a login whose email no user holds and a login whose password does not
\* match the digest of the user found are answered with the same response:
\* status 401 and the message "Invalid email or password", nothing else, and
\* neither changes the store.
C22_LoginFailuresAlike ==
    [][\A p \in Procs :
         /\ ( /\ Starts(p, "login")
              /\ req'[p].body.password[1] # ""
              /\ \A u \in DOMAIN users : users[u].email # req'[p].body.email[1] )
            => /\ pc'[p] = "done"
               /\ resp'[p] = [status |-> 401, msg |-> "Invalid email or password",
                              accts |-> <<>>, txs |-> <<>>]
               /\ StoreUnchanged
         /\ ( /\ pc[p] = "compare" /\ Stepped(p)
              /\ snap[p][1].password # <<"bcrypt", req[p].body.password[1]>> )
            => /\ pc'[p] = "done"
               /\ resp'[p] = [status |-> 401, msg |-> "Invalid email or password",
                              accts |-> <<>>, txs |-> <<>>]
               /\ StoreUnchanged]_vars

\* C22 witness: one login with an email nobody holds and one with the email
\* of u1 and a wrong password have both been answered, with equal responses.
C22_Witness ==
    \E p, q \in Procs :
        /\ pc[p] = "done" /\ req[p].op = "login"
        /\ req[p].body.email = Some("e9") /\ req[p].body.password = Some("pw1")
        /\ pc[q] = "done" /\ req[q].op = "login"
        /\ req[q].body.email = Some("e1") /\ req[q].body.password = Some("pw2")
        /\ "u1" \in DOMAIN users /\ users["u1"].email = "e1"
        /\ resp[p] = resp[q] /\ resp[p].status = 401


(* ------------------------ the bearer token gate ------------------------ *)

\* config.JWT_SECRET (middleware/auth.ts:22, 47)
JWT_SECRET == "secret"

\* generateToken: jwt.sign(payload, JWT_SECRET, { expiresIn }); the token is
\* kept as its payload, the key it was signed with and whether its lifetime
\* has run out when it is presented. (middleware/auth.ts:46-69)
generateToken(userId) == [userId |-> userId, key |-> JWT_SECRET, expired |-> FALSE]

\* "Bearer <token>"
Bearer(token) == [scheme |-> "Bearer", token |-> token]

\* jwt.verify(token, JWT_SECRET) returns the payload instead of throwing.
\* (middleware/auth.ts:28-35)
Verified(token) == token.key = JWT_SECRET /\ ~token.expired

\* Mutant: the payload of a bearer token is decoded without verification.
authenticateToken_Decoded(header) ==
    IF header.scheme # "Bearer"
    THEN [next |-> FALSE, user |-> "",
          response |-> ErrorResponse(401, "Authorization header with Bearer token is required")]
    ELSE [next |-> header.token # NoToken, user |-> header.token.userId,
          response |-> ErrorResponse(403, "Invalid or expired token")]

\* authenticateToken: answers 401 or 403 itself, or sets req.user to the
\* payload and calls next(). (middleware/auth.ts:6-44)
authenticateToken(header) ==
    IF header.scheme # "Bearer"
    THEN [next |-> FALSE, user |-> "",
          response |-> ErrorResponse(401, "Authorization header with Bearer token is required")]
    ELSE [next |-> Verified(header.token), user |-> header.token.userId,
          response |-> ErrorResponse(403, "Invalid or expired token")]

\* A request of p has been received and no middleware has run on it yet.
Pending(p) == pc[p] = "idle" /\ req[p].op # "none"

\* A request for a protected route is received with its Authorization header.
Receive(p, Ops, Headers) ==
    /\ Ready(p)
    /\ ~Pending(p)
    /\ \E op \in Ops, h \in Headers :
         req' = [req EXCEPT ![p] = [NoReq EXCEPT !.op = op, !.auth = h]]
    /\ pc' = [pc EXCEPT ![p] = "idle"]
    /\ resp' = [resp EXCEPT ![p] = NoResp]
    /\ UNCHANGED <<users, accounts, transactions, snap>>

\* authenticateToken answers the request itself. (middleware/auth.ts:13-19, 38-43)
Refuse(p) ==
    /\ Pending(p)
    /\ ~authenticateToken(req[p].auth).next
    /\ pc' = [pc EXCEPT ![p] = "done"]
    /\ resp' = [resp EXCEPT ![p] = authenticateToken(req[p].auth).response]
    /\ UNCHANGED <<users, accounts, transactions, req, snap>>

\* authenticateToken calls next() on a request for op: the handler of the
\* route runs in the same turn. (middleware/auth.ts:36-37)
Admitted(p, op) ==
    /\ Pending(p)
    /\ req[p].op = op
    /\ authenticateToken(req[p].auth).next

\* req.user.userId as the handlers read it. (middleware/auth.ts:36)
Decoded(p) == authenticateToken(req[p].auth).user

\* The routes behind authenticateToken that are exercised here.
\* (accountRoutes.ts:15, unnamed/part_007:17, unnamed/part_008:21-28)
GateOps ==
    {"createTransaction", "getAccountById", "updateAccount", "deleteAccount",
     "deleteUser"}

\* No header, a header of another scheme, and bearer headers with: a string
\* that is no token, a token signed with another key, a token whose lifetime
\* has run out, and the tokens a login of u1 and of u2 returns.
GateHeaders ==
    {NoHeader,
     [scheme |-> "Basic", token |-> NoToken],
     Bearer(NoToken),
     Bearer([userId |-> "u1", key |-> "forged", expired |-> FALSE]),
     Bearer([userId |-> "u1", key |-> JWT_SECRET, expired |-> TRUE]),
     Bearer(generateToken("u1")),
     Bearer(generateToken("u2"))}

NextGate ==
    \E p \in Procs :
        \/ Receive(p, GateOps, GateHeaders)
        \/ Refuse(p)
        \/ /\ Admitted(p, "createTransaction")
           /\ PostTransaction(p, {Decoded(p)}, {AcctA}, {"DEPOSIT"}, {1}, {TRUE})
        \/ TxCreate(p)
        \/ TxUpdate(p)
        \/ /\ Admitted(p, "getAccountById")
           /\ GetAccount(p, {Decoded(p)}, {AcctA})
        \/ /\ Admitted(p, "updateAccount")
           /\ PatchAccount(p, {Decoded(p)}, {AcctA},
                           {[NoBody EXCEPT !.status = Some("SUSPENDED")]})
        \/ AccountUpdate(p)
        \/ /\ Admitted(p, "deleteAccount")
           /\ DeleteAccount(p, {Decoded(p)}, {AcctA})
        \/ DeleteCount(p)
        \/ AccountDelete(p)
        \/ /\ Admitted(p, "deleteUser")
           /\ DeleteUser(p, {Decoded(p)}, {"u2"})
        \/ UserDelete(p)

SpecGate == Init /\ [][NextGate]_vars

createError(message, statusCode) ==
    [statusCode |-> Some(statusCode), message |-> message]

\* new Error(message), or an exception of the runtime: no statusCode.
RawError(message) == [statusCode |-> None, message |-> message]

\* errorHandler: the status is error.statusCode or 500; the message is
\* error.message whenever there is one, whether or not the error carries a
\* status code, and 'Internal Server Error' otherwise; the stack goes out in
\* development only. (middleware/errorHandler.ts:15-50)
errorHandler(error, nodeEnv) ==
    [status |-> IF error.statusCode # None THEN error.statusCode[1] ELSE 500,
     msg    |-> IF error.message # "" THEN error.message ELSE "Internal Server Error",
     accts  |-> <<>>,
     txs    |-> <<>>,
     stack  |-> nodeEnv = "development"]

\* A middleware or a controller hands an error to next(error): sanitizeInput
\* and every controller do so with whatever they caught.
\* (unnamed/part_006:146-148, authController.ts:35-38)
NextError(p, Errors, Envs) ==
    /\ Ready(p)
    /\ \E e \in Errors, m \in Envs :
         req' = [req EXCEPT ![p] =
                   [NoReq EXCEPT !.op = "failed", !.error = Some(e), !.env = m]]
    /\ pc' = [pc EXCEPT ![p] = "error"]
    /\ resp' = [resp EXCEPT ![p] = NoResp]
    /\ UNCHANGED <<users, accounts, transactions, snap>>

\* Express calls the error-handling middleware. (app.ts:50-51)
HandleError(p) ==
    /\ pc[p] = "error"
    /\ resp' = [resp EXCEPT ![p] = errorHandler(req[p].error[1], req[p].env)]
    /\ pc' = [pc EXCEPT ![p] = "done"]
    /\ UNCHANGED <<users, accounts, transactions, req, snap>>

\* Errors of the services and the middleware, made with createError, and
\* exceptions that carry no status code: the RangeError of the recursive
\* sanitizer on a deeply nested body, the Error of getEnvConfig when the
\* secret is not configured, and an Error without a message.
BoundaryErrors ==
    {createError("Account not found", 404),
     createError("Input too large", 413),
     createError("Insufficient funds", 400),
     createError("Failed to create transaction", 500),
     RawError("Maximum call stack size exceeded"),
     RawError("JWT_SECRET environment variable is required"),
     RawError("")}

\* NODE_ENV (types/index.ts:85-97)
NodeEnvs == {"development", "test", "production"}

NextBoundary ==
    \E p \in Procs :
        \/ NextError(p, BoundaryErrors, NodeEnvs)
        \/ HandleError(p)

SpecBoundary == Init /\ [][NextBoundary]_vars

DigitValue ==
    "0" :> 0 @@ "1" :> 1 @@ "2" :> 2 @@ "3" :> 3 @@ "4" :> 4 @@
    "5" :> 5 @@ "6" :> 6 @@ "7" :> 7 @@ "8" :> 8 @@ "9" :> 9

\* The number the leading digits of chars spell, after the digits already
\* read have given acc; seen tells whether a digit has been read.
RECURSIVE ParseDigits(_, _, _)
ParseDigits(chars, acc, seen) ==
    IF chars = <<>> \/ chars[1] \notin DOMAIN DigitValue
    THEN [nan |-> ~seen, n |-> acc]
    ELSE ParseDigits(Tail(chars), 10 * acc + DigitValue[chars[1]], TRUE)

\* parseInt(string): an optional sign, then digits up to the first character
\* that is none; NaN when there is no digit. (unnamed/part_003:94-95, 134-135)
parseInt(chars) ==
    IF chars # <<>> /\ chars[1] = "-"
    THEN LET v == ParseDigits(Tail(chars), 0, FALSE)
         IN  [nan |-> v.nan, n |-> 0 - v.n]
    ELSE ParseDigits(chars, 0, FALSE)

\* "if (page) options.page = parseInt(page)" in the controller and
\* "options?.page || dflt" in the service: a parameter that is missing or
\* empty, and one that parses to NaN or to 0, give the default.
\* (unnamed/part_003:94-95, transactionService.ts:152-153)
OrDefault(param, dflt) ==
    IF param = None \/ param[1] = <<>>
    THEN dflt
    ELSE LET v == parseInt(param[1])
         IN  IF v.nan \/ v.n = 0 THEN dflt ELSE v.n

\* transactionService.ts:153, 218
DefaultLimit == 50

\* transactionService.ts:154
Skip(page, limit) == (page - 1) * limit

\* Math.ceil(total / limit) for a limit that is not 0
\* (transactionService.ts:190)
Pages(total, limit) ==
    IF limit > 0
    THEN (total + limit - 1) \div limit
    ELSE 0 - (total \div (0 - limit))

\* The rows of a sequence in reverse order.
RECURSIVE Reversed(_)
Reversed(rows) ==
    IF rows = <<>> THEN <<>> ELSE Reversed(Tail(rows)) \o <<rows[1]>>

\* Mutant: take is not passed on.
FindMany_NoTake(rows, skip, take) ==
    SubSeq(rows, skip + 1, Len(rows))

\* What findMany returns of the ordered rows for skip >= 0: with take >= 0
\* the take rows after the first skip, and with take < 0 the same counted
\* from the end of the order.
FindMany(rows, skip, take) ==
    LET Min(a, b) == IF a < b THEN a ELSE b
    IN  IF take >= 0
        THEN SubSeq(rows, skip + 1, Min(Len(rows), skip + take))
        ELSE Reversed(SubSeq(Reversed(rows), skip + 1, Min(Len(rows), skip - take)))

\* The answer of a paged read: findMany refuses a negative skip, which the
\* catch of the service turns into its 500.
\* (transactionService.ts:166-199, 234-276)
PageResponse(rows, query, okMsg, failMsg) ==
    LET page  == OrDefault(query.page, 1)
        limit == OrDefault(query.limit, DefaultLimit)
    IN  IF Skip(page, limit) < 0
        THEN ErrorResponse(500, failMsg)
        ELSE [status |-> 200, msg |-> okMsg, accts |-> <<>>,
              txs |-> FindMany(rows, Skip(page, limit), limit),
              pagination |-> [page |-> page, limit |-> limit, total |-> Len(rows),
                              pages |-> Pages(Len(rows), limit)]]

\* The query of a paged read.
PageQuery(page, limit) == [NoBody EXCEPT !.page = page, !.limit = limit]

\* GET /v1/accounts/:accountId/transactions?page&limit&type up to the awaited
\* findMany/count. (unnamed/part_003:71-100, transactionService.ts:139-164)
GetTransactionsPage(p, U, A, T, PageParams, LimitParams) ==
    /\ Ready(p)
    /\ \E u \in U, a \in A, t \in T, pg \in PageParams, lm \in LimitParams :
         LET account == FindFirstAccount(a, u)
         IN  /\ req' = [req EXCEPT ![p] =
                          [NoReq EXCEPT !.op = "getTransactionsByAccountId",
                                        !.user = u, !.acct = a, !.type = t,
                                        !.body = PageQuery(pg, lm)]]
             /\ IF account = None
                THEN /\ pc' = [pc EXCEPT ![p] = "done"]
                     /\ resp' = [resp EXCEPT ![p] =
                                   ErrorResponse(404, "Account not found")]
                ELSE /\ pc' = [pc EXCEPT ![p] = "listPage"]
                     /\ resp' = [resp EXCEPT ![p] = NoResp]
    /\ UNCHANGED <<users, accounts, transactions, snap>>

\* The rows of one account that pass the type filter, newest first.
\* (transactionService.ts:157-169)
RECURSIVE ListRows(_, _, _)
ListRows(rows, accountId, type) ==
    IF rows = <<>> THEN <<>>
    ELSE LET last == rows[Len(rows)]
             rest == ListRows(SubSeq(rows, 1, Len(rows) - 1), accountId, type)
         IN  IF last.accountId = accountId /\ (type # "" => last.type = type)
             THEN <<last>> \o rest ELSE rest

\* transactionService.ts:166-199
ListPage(p) ==
    /\ pc[p] = "listPage"
    /\ pc' = [pc EXCEPT ![p] = "done"]
    /\ resp' = [resp EXCEPT ![p] =
                  PageResponse(ListRows(transactions, req[p].acct, req[p].type),
                               req[p].body,
                               "Transactions retrieved successfully",
                               "Failed to retrieve transactions")]
    /\ UNCHANGED <<users, accounts, transactions, req, snap>>

\* GET /v1/transactions?page&limit&accountId&type, no dates.
\* (unnamed/part_003:116-155, transactionService.ts:202-278)
GetHistoryPage(p, U, A, T, PageParams, LimitParams) ==
    /\ Ready(p)
    /\ \E u \in U, a \in A, t \in T, pg \in PageParams, lm \in LimitParams :
         /\ req' = [req EXCEPT ![p] =
                      [NoReq EXCEPT !.op = "getTransactionHistory", !.user = u,
                                    !.acct = a, !.type = t,
                                    !.body = PageQuery(pg, lm)]]
         /\ resp' = [resp EXCEPT ![p] =
                       PageResponse(HistoryRows(transactions, u, a, t),
                                    PageQuery(pg, lm),
                                    "Transaction history retrieved successfully",
                                    "Failed to retrieve transaction history")]
    /\ pc' = [pc EXCEPT ![p] = "done"]
    /\ UNCHANGED <<users, accounts, transactions, snap>>

\* Query values: missing, and the strings 0, 1, 2, 3, -1 and x.
PageParams ==
    {None, Some(<<"0">>), Some(<<"1">>), Some(<<"2">>), Some(<<"3">>),
     Some(<<"-", "1">>), Some(<<"x">>)}

LimitParams ==
    {None, Some(<<"0">>), Some(<<"1">>), Some(<<"2">>), Some(<<"-", "1">>)}

\* u1 deposits into and withdraws from its account through r1; r2 reads
\* pages of the account's list and of the history, with and without a type.
NextPages ==
    \/ \E p \in {"r1"} :
        \/ PostTransaction(p, OwnerIds, {AcctA}, {"DEPOSIT", "WITHDRAWAL"}, {1}, {TRUE})
        \/ TxCreate(p)
        \/ TxUpdate(p)
    \/ \E p \in {"r2"} :
        \/ GetTransactionsPage(p, UserIds, {AcctA}, {"", "DEPOSIT"},
                               PageParams, LimitParams)
        \/ ListPage(p)
        \/ GetHistoryPage(p, OwnerIds, {"", AcctA}, {"", "DEPOSIT"},
                          PageParams, LimitParams)

SpecPages == Init /\ [][NextPages]_vars

\* This step answers a paged read of p.
PageAnswered(p) ==
    \/ pc[p] = "listPage" /\ pc'[p] = "done"
    \/ Starts(p, "getTransactionHistory")

\* The positions of the rows that pass the filters of the paged read of p
\* answered in this step.
Matching(p) ==
    {i \in 1..Len(transactions) :
        /\ req'[p].type # "" => transactions[i].type = req'[p].type
        /\ IF req'[p].op = "getTransactionsByAccountId"
           THEN transactions[i].accountId = req'[p].acct
           ELSE /\ transactions[i].accountId \in DOMAIN accounts
                /\ accounts[transactions[i].accountId].userId = req'[p].user
                /\ req'[p].acct # "" => transactions[i].accountId = req'[p].acct}

\* The query string that spells a page number or a limit.
Spelled(n) ==
    IF n < 0 THEN <<"-", <<"0", "1", "2", "3">>[1 - n]>>
    ELSE <<(<<"0", "1", "2", "3">>)[n + 1]>>

\* C25: a paged read of an account's transactions or of the history that asks
\* for page pn >= 1 with limit ln >= 1 is answered with at most ln rows, and
\* reports as total the number of rows passing its filters and as pages the
\* least number of pages of ln rows that hold them all; a read that names
\* neither page nor limit is answered as page 1 with limit 50.
C25_Paging ==
    [][\A p \in Procs :
         PageAnswered(p) =>
           LET q == req'[p].body
               r == resp'[p]
               total == Cardinality(Matching(p))
           IN  /\ \A pn \in 1..3, ln \in 1..2 :
                    ( q.page = Some(Spelled(pn)) /\ q.limit = Some(Spelled(ln)) )
                    => /\ r.status = 200
                       /\ Len(r.txs) <= ln
                       /\ r.pagination.page = pn /\ r.pagination.limit = ln
                       /\ r.pagination.total = total
                       /\ r.pagination.pages * ln >= total
                       /\ (r.pagination.pages - 1) * ln < total
               /\ ( q.page = None /\ q.limit = None )
                    => /\ r.status = 200
                       /\ Len(r.txs) <= 50
                       /\ r.pagination.page = 1 /\ r.pagination.limit = 50
                       /\ r.pagination.total = total
                       /\ r.pagination.pages * 50 >= total
                       /\ (r.pagination.pages - 1) * 50 < total]_vars

\* C25 witness: with three transactions on the account, page 2 of its list
\* with limit 2 was answered with one row and a page count of 2.
C25_Witness ==
    \E p \in Procs :
        /\ pc[p] = "done" /\ req[p].op = "getTransactionsByAccountId"
        /\ req[p].body.page = Some(<<"2">>) /\ req[p].body.limit = Some(<<"2">>)
        /\ req[p].type = ""
        /\ Len(transactions) = 3
        /\ resp[p].status = 200 /\ Len(resp[p].txs) = 1
        /\ resp[p].pagination.total = 3 /\ resp[p].pagination.pages = 2

\* C26: a paged read that asks for a page number outside the pages that hold
\* rows (below 1, or past the last page for its limit) is answered 200 with
\* an empty list.
C26_OutOfRangePageEmpty ==
    [][\A p \in Procs :
         PageAnswered(p) =>
           LET q == req'[p].body
               total == Cardinality(Matching(p))
           IN  \A pn \in (0 - 1)..3, ln \in {1, 2, 50} :
                 ( /\ q.page = Some(Spelled(pn))
                   /\ q.limit = (IF ln = 50 THEN None ELSE Some(Spelled(ln)))
                   /\ (pn < 1 \/ (pn - 1) * ln >= total) )
                 => /\ resp'[p].status = 200
                    /\ resp'[p].txs = <<>>]_vars


(* ------------------------ the order of the checks ---------------------- *)

\* Deposits and withdrawals of -1, 0 and 1 by the owner and by the other
\* user, on the account and on an id that names none, while the owner
\* suspends and reactivates the account.
NextOrder ==
    \E p \in Procs :
        \/ PostTransaction(p, UserIds, {AcctA, AcctMissing}, {"DEPOSIT", "WITHDRAWAL"},
                           {-1, 0, 1}, {TRUE})
        \/ TxCreate(p)
        \/ TxUpdate(p)
        \/ PatchAccount(p, OwnerIds, {AcctA}, StatusBodies)
        \/ AccountUpdate(p)

SpecOrder == Init /\ [][NextOrder]_vars

\* C27: two createTransaction requests with the same amount, zero or
\* negative, are answered alike, with status 400, whatever account each
\* names: owned, not owned, missing or inactive.
C27_AmountCheckedFirst ==
    \A p, q \in Procs :
        ( /\ pc[p] = "done" /\ req[p].op = "createTransaction"
          /\ pc[q] = "done" /\ req[q].op = "createTransaction"
          /\ req[p].amount <= 0
          /\ req[q].amount = req[p].amount )
        => /\ resp[p].status = 400
           /\ resp[q] = resp[p]


(* ---------------------- the ledger under interleaving ------------------ *)

\* The rows of one account, in commit order.
RowsOf(accountId) ==
    SelectSeq(transactions, LAMBDA row : row.accountId = accountId)

\* C28: the rows of every account form a chain in commit order: the first
\* starts from 0, each later one starts from the balance the one before left,
\* and the account's balance is the balance the last one left.
C28_LedgerChain ==
    \A a \in DOMAIN accounts :
        LET rows == RowsOf(a)
        IN  rows # <<>> =>
              /\ rows[1].balanceBefore = 0
              /\ \A i \in 2..Len(rows) : rows[i].balanceBefore = rows[i - 1].balanceAfter
              /\ accounts[a].balance = rows[Len(rows)].balanceAfter

\* C29: a createTransaction commits only while the status of its account is
\* ACTIVE: a commit step finds the account ACTIVE in the store, and a request
\* whose account has been made non-ACTIVE since it was read ends without
\* changing a balance or adding a row.
C29_CommitOnlyWhenActive ==
    [][\A p \in Procs :
         ( /\ pc[p] = "txUpdate" /\ Stepped(p)
           /\ req[p].acct \in DOMAIN accounts
           /\ accounts[req[p].acct].status # "ACTIVE" )
         => /\ accounts' = accounts
            /\ transactions' = transactions]_vars

(* ------------------------- references between rows --------------------- *)

\* u1 deposits into its account and deletes it; u2 opens an account and
\* deletes itself; every check and every write is a step of its own.
NextIntegrity ==
    \E p \in Procs :
        \/ PostTransaction(p, OwnerIds, {AcctA}, {"DEPOSIT"}, {1}, {TRUE})
        \/ TxCreate(p)
        \/ TxUpdate(p)
        \/ DeleteAccount(p, OwnerIds, {AcctA})
        \/ DeleteCount(p)
        \/ AccountDelete(p)
        \/ PostAccount(p, {"u2"}, {[NoBody EXCEPT !.accountNumber = Some("n2"),
                                                  !.currency = Some("GBP"),
                                                  !.type = Some("SAVINGS")]})
        \/ AccountFindUser(p)
        \/ AccountCreate(p)
        \/ DeleteUser(p, {"u2"}, {"u2"})
        \/ UserDelete(p)

SpecIntegrity == Init /\ [][NextIntegrity]_vars

\* C30: in every reachable state the account of every transaction row is a
\* row of the accounts table and the user of every account row is a row of
\* the users table.
C30_ReferencesResolve ==
    /\ \A i \in 1..Len(transactions) : transactions[i].accountId \in DOMAIN accounts
    /\ \A a \in DOMAIN accounts : accounts[a].userId \in DOMAIN users

\* C30 witness: u2 asked to be deleted while owning no account, an account of
\* u2 was inserted before the delete ran, and the delete was answered 500;
\* u2 and the new account are there, and so is a1 with a transaction that a
\* deposit committed.
C30_Witness ==
    \E p \in Procs :
        /\ pc[p] = "done" /\ req[p].op = "deleteUser" /\ resp[p].status = 500
        /\ "u2" \in DOMAIN users
        /\ \E a \in DOMAIN accounts : a # AcctA /\ accounts[a].userId = "u2"
        /\ AcctA \in DOMAIN accounts
        /\ \E i \in 1..Len(transactions) : transactions[i].accountId = AcctA

====
